---- MODULE Spec2Model ----
(***************************************************************************)
(* The Earth component of NextGlobe (src/components/Earth.tsx): one React  *)
(* function component that owns a maplibre-gl Map through a ref, a status  *)
(* string shown as an overlay, and a mount effect with a cleanup.          *)
(*                                                                         *)
(* The hosting framework runs the effect after the first commit, runs the  *)
(* cleanup the effect returned before it runs the effect again (the        *)
(* development double invocation mount -> cleanup -> mount keeps refs and  *)
(* state), and runs the cleanup on unmount.  The widget is opaque: its     *)
(* constructor either returns an instance or throws, and a live instance   *)
(* delivers "load" and "error" events to the registered listeners.         *)
(***************************************************************************)
EXTENDS Integers, Sequences, FiniteSets, TLC

(* ----------------------------- bounds ---------------------------------- *)
\* effect runs of the one component instance
MaxMounts == 2
\* events delivered to one constructed widget
MaxSignals == 2

(* --------------------------- JS values --------------------------------- *)
\* A JS value that is either undefined or a string.
Undefined == [def |-> FALSE, str |-> ""]
Str(s) == [def |-> TRUE, str |-> s]

\* JS truthiness of string | undefined: undefined and '' are falsy.
Truthy(v) == v.def /\ v.str # ""

\* `${v}` : undefined is rendered as the text "undefined".
Template(v) == IF v.def THEN v.str ELSE "undefined"

\* String.prototype.includes: case-sensitive substring test.
Includes(s, p) ==
    \E i \in 1..(Len(s) - Len(p) + 1) : SubSeq(s, i, i + Len(p) - 1) = p

(* ------------------------- style document ------------------------------ *)
\* The module-level style object: its version and its ordered layers.
PLAYFUL_GLOBE_STYLE_Reordered ==
    [version |-> 8,
     layers  |-> << [id |-> "background",      type |-> "background"],
                    [id |-> "water-fill",      type |-> "fill"],
                    [id |-> "terrain-raster",  type |-> "raster"],
                    [id |-> "coastline-glow",  type |-> "line"],
                    [id |-> "landcover-green", type |-> "fill"],
                    [id |-> "landuse-green",   type |-> "fill"],
                    [id |-> "continent-label", type |-> "symbol"],
                    [id |-> "country-label",   type |-> "symbol"],
                    [id |-> "city-label",      type |-> "symbol"] >>]

PLAYFUL_GLOBE_STYLE ==
    [version |-> 8,
     layers  |-> << [id |-> "background",      type |-> "background"],
                    [id |-> "terrain-raster",  type |-> "raster"],
                    [id |-> "water-fill",      type |-> "fill"],
                    [id |-> "coastline-glow",  type |-> "line"],
                    [id |-> "landcover-green", type |-> "fill"],
                    [id |-> "landuse-green",   type |-> "fill"],
                    [id |-> "continent-label", type |-> "symbol"],
                    [id |-> "country-label",   type |-> "symbol"],
                    [id |-> "city-label",      type |-> "symbol"] >>]

(* ------------------------------ state ---------------------------------- *)
VARIABLES
    phase,          \* "initial" | "pending" | "active" | "unmounted"
    mapContainer,   \* mapContainer.current: "null" or "div"
    mapRef,         \* mapRef.current: 0 (null) or the index of a widget
    status,         \* the status state of useState
    overlay,        \* the status text of the last render
    styleDoc,       \* the PLAYFUL_GLOBE_STYLE object
    widgets,        \* every widget the constructor returned, in order
    hasCleanup,     \* the last effect run returned a cleanup function
    uncaught,       \* an exception escaped the effect
    mounts,         \* effect runs so far
    ctorLog,        \* the constructor's calls: how each one ended
    signalLog,      \* events delivered since the last construction
    statusAtCtor    \* status when the last widget was constructed

vars == << phase, mapContainer, mapRef, status, overlay, styleDoc, widgets,
           hasCleanup, uncaught, mounts, ctorLog, signalLog, statusAtCtor >>

(* ------------------------- the map widget ------------------------------ *)
\* new maplibregl.Map({container, style, ..., projection: {type:'globe'}})
NewMap(container, style) ==
    [container       |-> container,
     style           |-> style,
     projection      |-> "globe",
     listeners       |-> {},
     removed         |-> 0,
     projectionCalls |-> 0]

\* map.on(event, handler)
On(map, event) == [map EXCEPT !.listeners = @ \union {event}]

\* map.remove()
Remove(map) == [map EXCEPT !.removed = @ + 1]

\* map.setProjection({type: 'globe'})
SetProjection(map) ==
    [map EXCEPT !.projection = "globe", !.projectionCalls = @ + 1]

\* widgets that were constructed and not disposed
Live == { i \in 1..Len(widgets) : widgets[i].removed = 0 }

(* --------------------------- the handlers ------------------------------ *)
LoadHandler_NoProjection(map, st) == [status |-> "", map |-> map]

LoadHandler_KeepsError(map, st) ==
    [status |-> IF Includes(st, "Error: ") THEN st ELSE "",
     map    |-> SetProjection(map)]

\* map.on('load', ...): clear the status, re-assert the globe projection.
LoadHandler(map, st) ==
    [status |-> "", map |-> SetProjection(map)]

ErrorHandler_NoSpriteCheck(st, message) ==
    IF Truthy(message) /\ ~Includes(message.str, "glyph")
    THEN "Error: " \o message.str
    ELSE st

ErrorHandler_WrongPrefix(st, message) ==
    IF Truthy(message)
       /\ ~Includes(message.str, "glyph")
       /\ ~Includes(message.str, "sprite")
    THEN "Initialization Failed: " \o message.str
    ELSE st

\* map.on('error', ...): message is e.error?.message.
ErrorHandler(st, message) ==
    IF Truthy(message)
       /\ ~Includes(message.str, "glyph")
       /\ ~Includes(message.str, "sprite")
    THEN "Error: " \o message.str
    ELSE st

(* ------------------------ effect and cleanup --------------------------- *)
CleanupFn_NoRemove(ref, ws) == [ref |-> 0, widgets |-> ws]

CleanupFn_KeepsRef(ref, ws) ==
    IF ref # 0
    THEN [ref |-> ref, widgets |-> [ws EXCEPT ![ref] = Remove(@)]]
    ELSE [ref |-> ref, widgets |-> ws]

CleanupFn_RemovesTwice(ref, ws) ==
    IF ref # 0
    THEN [ref |-> 0, widgets |-> [ws EXCEPT ![ref] = Remove(Remove(@))]]
    ELSE [ref |-> ref, widgets |-> ws]

\* disposes the widget of the closure instead of the one the ref holds
CleanupFn_ClosureMap(ref, ws) ==
    IF Len(ws) > 0
    THEN [ref |-> 0, widgets |-> [ws EXCEPT ![Len(ws)] = Remove(@)]]
    ELSE [ref |-> 0, widgets |-> ws]

\* The function the effect returns.
CleanupFn(ref, ws) ==
    IF ref # 0
    THEN [ref |-> 0, widgets |-> [ws EXCEPT ![ref] = Remove(@)]]
    ELSE [ref |-> ref, widgets |-> ws]

MountEffect_NoCatch(ref, container, style, ws, st, outcome) ==
    IF ref # 0 \/ container = "null"
    THEN [ref |-> ref, widgets |-> ws, status |-> st,
          cleanup |-> FALSE, uncaught |-> FALSE, ctor |-> << >>]
    ELSE IF outcome.threw
    THEN [ref |-> ref, widgets |-> ws, status |-> st,
          cleanup |-> FALSE, uncaught |-> TRUE, ctor |-> << outcome >>]
    ELSE [ref |-> Len(ws) + 1,
          widgets |-> Append(ws, On(On(NewMap(container, style), "load"), "error")),
          status |-> st,
          cleanup |-> TRUE, uncaught |-> FALSE, ctor |-> << outcome >>]

\* The body of useEffect(() => {...}, []).  outcome is what the constructor
\* does if it is called: return an instance, or throw an error whose
\* message is outcome.message.
MountEffect(ref, container, style, ws, st, outcome) ==
    IF ref # 0 \/ container = "null"
    THEN \* early return: nothing is constructed, no cleanup is returned
         [ref |-> ref, widgets |-> ws, status |-> st,
          cleanup |-> FALSE, uncaught |-> FALSE, ctor |-> << >>]
    ELSE IF outcome.threw
    THEN \* catch (error) { setStatus(`Initialization Failed: ...`) }
         [ref |-> ref, widgets |-> ws,
          status |-> "Initialization Failed: " \o Template(outcome.message),
          cleanup |-> TRUE, uncaught |-> FALSE, ctor |-> << outcome >>]
    ELSE [ref |-> Len(ws) + 1,
          widgets |-> Append(ws, On(On(NewMap(container, style), "load"), "error")),
          status |-> st,
          cleanup |-> TRUE, uncaught |-> FALSE, ctor |-> << outcome >>]

(* ------------------------------ inputs --------------------------------- *)
\* What a constructor call can do.
CtorOutcomes ==
    { [threw |-> FALSE, message |-> Undefined],
      [threw |-> TRUE,  message |-> Str("invalid container")],
      [threw |-> TRUE,  message |-> Undefined] }

\* e.error?.message of the error events the widget delivers.
ErrorMessages ==
    { Undefined,
      Str(""),
      Str("glyph fetch failed"),
      Str("could not load sprite"),
      Str("WebGL context lost"),
      Str("Glyph range missing") }

(* ------------------------------ actions -------------------------------- *)
Init ==
    /\ phase = "initial"
    /\ mapContainer = "null"
    /\ mapRef = 0
    /\ status = "Initializing Globe..."
    /\ overlay = ""
    /\ styleDoc = PLAYFUL_GLOBE_STYLE
    /\ widgets = << >>
    /\ hasCleanup = FALSE
    /\ uncaught = FALSE
    /\ mounts = 0
    /\ ctorLog = << >>
    /\ signalLog = << >>
    /\ statusAtCtor = ""

\* First render and commit: the container div exists and the ref is attached.
Render ==
    /\ phase = "initial"
    /\ phase' = "pending"
    /\ mapContainer' = "div"
    /\ overlay' = status
    /\ UNCHANGED << mapRef, status, styleDoc, widgets, hasCleanup, uncaught,
                    mounts, ctorLog, signalLog, statusAtCtor >>

\* A re-render after setStatus: {status && <div>{status}</div>}.
Rerender ==
    /\ phase \in {"pending", "active"}
    /\ overlay # status
    /\ overlay' = status
    /\ UNCHANGED << phase, mapContainer, mapRef, status, styleDoc, widgets,
                    hasCleanup, uncaught, mounts, ctorLog, signalLog,
                    statusAtCtor >>

\* The framework runs the mount effect: after the first commit, or again
\* after the cleanup of the previous run.
RunEffect(outcome) ==
    /\ phase \in {"pending", "unmounted"}
    /\ mounts < MaxMounts
    /\ LET r == MountEffect(mapRef, mapContainer, styleDoc, widgets, status,
                            outcome)
       IN  /\ mapRef' = r.ref
           /\ widgets' = r.widgets
           /\ status' = r.status
           /\ hasCleanup' = r.cleanup
           /\ uncaught' = (uncaught \/ r.uncaught)
           /\ ctorLog' = ctorLog \o r.ctor
           /\ signalLog' = IF Len(r.widgets) > Len(widgets)
                           THEN << >> ELSE signalLog
           /\ statusAtCtor' = IF Len(r.widgets) > Len(widgets)
                              THEN r.status ELSE statusAtCtor
    /\ phase' = "active"
    /\ mounts' = mounts + 1
    /\ UNCHANGED << mapContainer, overlay, styleDoc >>

\* The framework tears the effect down: it calls the cleanup function the
\* last effect run returned, if it returned one.
RunCleanup ==
    /\ phase = "active"
    /\ LET r == IF hasCleanup THEN CleanupFn(mapRef, widgets)
                ELSE [ref |-> mapRef, widgets |-> widgets]
       IN  /\ mapRef' = r.ref
           /\ widgets' = r.widgets
    /\ hasCleanup' = FALSE
    /\ phase' = "unmounted"
    /\ UNCHANGED << mapContainer, status, overlay, styleDoc, uncaught,
                    mounts, ctorLog, signalLog, statusAtCtor >>

\* A live widget delivers "load" to its listener.
Load(i) ==
    /\ i \in Live
    /\ "load" \in widgets[i].listeners
    /\ Len(signalLog) < MaxSignals
    /\ LET r == LoadHandler(widgets[i], status)
       IN  /\ status' = r.status
           /\ widgets' = [widgets EXCEPT ![i] = r.map]
    /\ signalLog' = Append(signalLog,
                           [kind |-> "load", target |-> i, message |-> Undefined])
    /\ UNCHANGED << phase, mapContainer, mapRef, overlay, styleDoc,
                    hasCleanup, uncaught, mounts, ctorLog, statusAtCtor >>

\* A live widget delivers "error" to its listener.
Error(i, message) ==
    /\ i \in Live
    /\ "error" \in widgets[i].listeners
    /\ Len(signalLog) < MaxSignals
    /\ status' = ErrorHandler(status, message)
    /\ signalLog' = Append(signalLog,
                           [kind |-> "error", target |-> i, message |-> message])
    /\ UNCHANGED << phase, mapContainer, mapRef, overlay, styleDoc, widgets,
                    hasCleanup, uncaught, mounts, ctorLog, statusAtCtor >>

Next ==
    \/ Render
    \/ Rerender
    \/ \E outcome \in CtorOutcomes : RunEffect(outcome)
    \/ RunCleanup
    \/ \E i \in 1..Len(widgets) : Load(i)
    \/ \E i \in 1..Len(widgets), message \in ErrorMessages : Error(i, message)

Spec == Init /\ [][Next]_vars

(* ===================== properties of the component ===================== *)
Last(s) == s[Len(s)]
Front(s) == SubSeq(s, 1, Len(s) - 1)

RECURSIVE SumRemoved(_)
SumRemoved(ws) ==
    IF ws = << >> THEN 0 ELSE Last(ws).removed + SumRemoved(Front(ws))

RECURSIVE SumProjection(_)
SumProjection(ws) ==
    IF ws = << >> THEN 0 ELSE Last(ws).projectionCalls + SumProjection(Front(ws))

\* calls of remove() and of setProjection() over all widgets
RemoveCalls == SumRemoved(widgets)
ProjectionCalls == SumProjection(widgets)

\* the steps of a behaviour, told apart by what they change
CleanupStep == phase = "active" /\ phase' = "unmounted"
CtorStep == Len(ctorLog') = Len(ctorLog) + 1
SignalStep == Len(signalLog') = Len(signalLog) + 1
LoadStep == SignalStep /\ Last(signalLog').kind = "load"
ErrorStep == SignalStep /\ Last(signalLog').kind = "error"

\* the message names glyph or sprite resources
MentionsAsset(m) ==
    m.def /\ (Includes(m.str, "glyph") \/ Includes(m.str, "sprite"))

LayerIds(style) == [i \in 1..Len(style.layers) |-> style.layers[i].id]

AuthoredLayerOrder ==
    << "background", "terrain-raster", "water-fill", "coastline-glow",
       "landcover-green", "landuse-green", "continent-label",
       "country-label", "city-label" >>

(* ------------------------------- C1 ------------------------------------ *)
\* C1 as stated: over any sequence of renders and effect runs of one
\* component instance the constructor has been invoked at most once.
C1_CtorAtMostOnce == Len(ctorLog) <= 1

\* C1 amended: the constructor is invoked at most once per effect run and
\* at most one constructed, undisposed widget exists at any time; over
\* mount -> cleanup -> mount the constructor is invoked once per mount.
C1_AtMostOneLive ==
    /\ Cardinality(Live) <= 1
    /\ Len(ctorLog) <= mounts

C1_Witness ==
    /\ Len(ctorLog) = 2
    /\ Len(widgets) = 2
    /\ Cardinality(Live) = 1
    /\ phase = "active"

(* ------------------------------- C2 ------------------------------------ *)
\* C2 as stated: every unmount leaves the widget reference null and
\* invokes remove() exactly once, also after a failed construction.
C2_UnmountRemovesOnce ==
    [][CleanupStep => mapRef' = 0 /\ RemoveCalls' = RemoveCalls + 1]_vars

\* C2 amended: every unmount leaves the widget reference null; it invokes
\* remove() exactly once, on the held widget, when the reference holds one,
\* and not at all when construction failed.
C2_UnmountClearsRef ==
    [][CleanupStep =>
         /\ mapRef' = 0
         /\ RemoveCalls' = RemoveCalls + (IF mapRef # 0 THEN 1 ELSE 0)
         /\ mapRef # 0 => widgets'[mapRef].removed = 1]_vars

C2_Witness ==
    /\ phase = "unmounted"
    /\ mounts = 2
    /\ mapRef = 0
    /\ Len(ctorLog) = 2
    /\ Len(widgets) = 1
    /\ RemoveCalls = 1
    /\ ~Last(ctorLog).threw

C5_EveryOtherErrorSurfaced ==
    [][ErrorStep /\ ~MentionsAsset(Last(signalLog').message)
         => status' = "Error: " \o Last(signalLog').message.str]_vars

\* C5 amended: every "error" signal that carries a non-empty message which
\* does not name glyph or sprite resources makes the status "Error: "
\* followed by that message; a signal without a message changes nothing.
C5_MessageErrorSurfaced ==
    [][ErrorStep /\ ~MentionsAsset(Last(signalLog').message)
         => IF Last(signalLog').message.def /\ Last(signalLog').message.str # ""
            THEN status' = "Error: " \o Last(signalLog').message.str
            ELSE status' = status]_vars

C5_Witness ==
    /\ Len(signalLog) = 2
    /\ signalLog[1].kind = "load"
    /\ signalLog[2].kind = "error"
    /\ signalLog[2].message = Str("WebGL context lost")
    /\ status = "Error: WebGL context lost"

(* ------------------------------- C6 ------------------------------------ *)
\* C6: when the constructor throws an error with message m, nothing
\* escapes the effect, the status becomes "Initialization Failed: " m, the
\* widget reference stays null and no widget or listener is added.
C6_CtorFailureCaught ==
    [][CtorStep /\ Last(ctorLog').threw /\ Last(ctorLog').message.def =>
         /\ ~uncaught'
         /\ status' = "Initialization Failed: " \o Last(ctorLog').message.str
         /\ mapRef' = 0
         /\ widgets' = widgets]_vars

C6_Witness ==
    /\ phase = "active"
    /\ Len(ctorLog) = 1
    /\ Last(ctorLog).threw
    /\ Last(ctorLog).message = Str("invalid container")
    /\ status = "Initialization Failed: invalid container"
    /\ mapRef = 0
    /\ widgets = << >>

(* ------------------------------- C7 ------------------------------------ *)
\* C7: in every state the style document's layers are, in order,
\* background, terrain-raster, water-fill, coastline-glow, landcover-green,
\* landuse-green, continent-label, country-label, city-label, and every
\* widget holds the document it was given when it was constructed.
C7_LayerOrderFixed ==
    /\ LayerIds(styleDoc) = AuthoredLayerOrder
    /\ \A i \in 1..Len(widgets) :
          /\ widgets[i].style = styleDoc
          /\ LayerIds(widgets[i].style) = AuthoredLayerOrder

C7_Witness ==
    /\ phase = "unmounted"
    /\ Len(widgets) = 2
    /\ Len(signalLog) = 2
    /\ signalLog[1].kind = "load"
    /\ signalLog[2].kind = "error"

(* ------------------------------- C8 ------------------------------------ *)
\* C8: the cleanup function may run again: where it has already run, or
\* where no widget was constructed, it invokes remove() on nothing and
\* leaves the reference null, and running it twice is running it once.
C8_CleanupIdempotent ==
    LET r1 == CleanupFn(mapRef, widgets)
        r2 == CleanupFn(r1.ref, r1.widgets)
    IN  /\ r1.ref = 0
        /\ r2 = r1
        /\ mapRef = 0 => r1.widgets = widgets

C8_Witness ==
    /\ phase = "unmounted"
    /\ mounts = 2
    /\ Len(widgets) = 1
    /\ RemoveCalls = 1
    /\ Len(ctorLog) = 2
    /\ Last(ctorLog).threw

(* ------------------------------- C9 ------------------------------------ *)
\* C9: over any sequence of mounts and unmounts the reference is non-null
\* exactly when one constructed, undisposed widget exists, and it is that
\* widget; constructed minus disposed is 0 or 1, and 0 after an unmount;
\* no widget is disposed twice.
C9_NoLeakNoDoubleDispose ==
    /\ (mapRef # 0) <=> (Cardinality(Live) = 1)
    /\ mapRef # 0 => Live = {mapRef}
    /\ Len(widgets) - RemoveCalls \in {0, 1}
    /\ phase = "unmounted" => Len(widgets) - RemoveCalls = 0
    /\ \A i \in 1..Len(widgets) : widgets[i].removed <= 1

C9_Witness ==
    /\ phase = "unmounted"
    /\ mounts = 2
    /\ Len(widgets) = 2
    /\ RemoveCalls = 2
    /\ mapRef = 0

(* ------------------------------- C10 ----------------------------------- *)
\* the error signal writes the status: non-empty message, no asset named
Surfaced(m) == m.def /\ m.str # "" /\ ~MentionsAsset(m)

\* the status the last writer among the signals leaves, init if none wrote
RECURSIVE LastWriter(_, _)
LastWriter(log, init) ==
    IF log = << >> THEN init
    ELSE IF Last(log).kind = "load" THEN ""
    ELSE IF Surfaced(Last(log).message) THEN "Error: " \o Last(log).message.str
    ELSE LastWriter(Front(log), init)

\* C10 as stated: on a constructed widget the status is
\* 'Initializing Globe...' until a load or a surfaced error, then '' after
\* a load and 'Error: m' after a surfaced error, whichever came last.
C10_LastWriterFromInitial ==
    mapRef # 0 => status = LastWriter(signalLog, "Initializing Globe...")

\* C10 amended: on a constructed widget the status is the text it had when
\* the widget was constructed ('Initializing Globe...' on the first mount)
\* until a load or a surfaced error, then '' after a load and 'Error: m'
\* after a surfaced error, whichever came last; no state is absorbing.
C10_LastWriterWins ==
    mapRef # 0 => status = LastWriter(signalLog, statusAtCtor)

C10_Witness ==
    /\ mapRef # 0
    /\ mounts = 2
    /\ statusAtCtor = "Error: WebGL context lost"
    /\ Len(signalLog) = 2
    /\ signalLog[1].kind = "error"
    /\ signalLog[1].message = Str("glyph fetch failed")
    /\ signalLog[2].kind = "load"
    /\ status = ""

====
